---- MODULE Spec2Model ----
(***************************************************************************)
(* Object-colour classifier (src/main.py): load -> centre crop -> bounded  *)
(* downscale -> HSV conversion -> threshold rules -> conveyor belt.        *)
(*                                                                         *)
(* A pixel grid is a record [h, w, r0, c0, resampled, px]: its shape, the  *)
(* row/column of the decoded image its first pixel comes from, whether     *)
(* cv2.resize has resampled it, and the identity of the pixel content of   *)
(* the file it was decoded from.  Two grids hold the same pixel values     *)
(* exactly when these records are equal.                                   *)
(*                                                                         *)
(* An HSV grid is the bag (multiset) of its <<hue, saturation, value>>     *)
(* pixels: classify reads the flattened S and V channels only through      *)
(* mean, median and a count, none of which depends on pixel order.         *)
(*                                                                         *)
(* Python floats are IEEE doubles.  int(k * (a / m)) is computed here with *)
(* both roundings of the double arithmetic (the quotient a / m, then the   *)
(* product), carried out on small integers.                                *)
(***************************************************************************)
EXTENDS Integers, Sequences, FiniteSets, Bags, TLC

VARIABLES
    files,      \* the file system: path -> decoded content, or Null
    BELT,       \* module global BELT: label -> belt letter
    argv,       \* sys.argv[1:] of the command-line run
    pc,         \* position of the running call
    path,       \* argument of detect / load_image
    debug,      \* keyword argument debug
    frac,       \* argument frac of center_crop, <<numerator, denominator>>
    max_side,   \* argument max_side of preprocess
    img,        \* local img of detect: the current pixel grid
    given,      \* the grid the latest stage received (img before that stage)
    hsv,        \* local hsv of detect: the HSV grid handed to classify
    label,      \* value returned by classify
    result,     \* value returned by detect
    err,        \* exception raised, "none" while there is none
    trace,      \* the pipeline stages and cv2 calls executed, in order
    out,        \* lines written to stdout / stderr
    status,     \* exit status of the process, -1 while it runs
    seen,       \* per path, the outcome of the latest finished detect call
    ncalls      \* number of detect calls made so far

vars == <<files, BELT, argv, pc, path, debug, frac, max_side, img, given, hsv,
          label, result, err, trace, out, status, seen, ncalls>>

-----------------------------------------------------------------------------
(* Tunable thresholds, src/main.py lines 19-27.  The float literal 0.30 is *)
(* kept as the pair <<3, 10>>.                                             *)

BLACK_PCT_THRESHOLD == <<3, 10>>
DARK_PIXEL_THRESH == 60
TRANSP_V_MEAN == 190
TRANSP_S_MEAN == 35
CROP_FRAC == <<3, 10>>
MEDIAN_BLACK == 40
MAX_SIDE == 512
BELT0 == [l \in {"black", "transparent", "colorful"} |->
            IF l = "black" THEN "A" ELSE IF l = "transparent" THEN "B" ELSE "C"]

Labels == {"black", "transparent", "colorful"}
Null == [h |-> -1, w |-> -1, px |-> 0]
NoGrid == [h |-> -1, w |-> -1, r0 |-> 0, c0 |-> 0, resampled |-> FALSE, px |-> 0]
NoResult == <<"none", "none">>

-----------------------------------------------------------------------------
(* Double-precision arithmetic on small integers.                          *)

Pow2(n) == IF n <= 0 THEN 1 ELSE 2 ^ n

\* 2^n * r modulo m, thirteen doublings at a time
RECURSIVE DoubleMod(_, _, _)
DoubleMod(r, n, m) ==
    IF n <= 13 THEN (r * Pow2(n)) % m
    ELSE DoubleMod((r * Pow2(13)) % m, n - 13, m)

\* least j >= 0 with a * 2^j >= m
RECURSIVE ScaleExp(_, _, _)
ScaleExp(a, m, j) == IF a * Pow2(j) >= m THEN j ELSE ScaleExp(a, m, j + 1)

\* least b >= 0 with q <= 2^b
RECURSIVE CeilLog2(_, _)
CeilLog2(q, b) == IF q <= Pow2(b) THEN b ELSE CeilLog2(q, b + 1)

\* int(k * (a / m)) for integers k >= 0 and 1 <= a <= m, as Python computes
\* it: s = a / m is rounded to 53 bits, k * s is rounded again, int truncates.
\* Off an exact integer k*a/m the truncation is floor(k*a/m).  On an exact
\* integer q the product lies below q when the quotient was rounded down
\* (remainder r of a * 2^(52+j) by m with 0 < 2r < m), and is rounded back to
\* q only when its distance from q, k*r / (m * 2^(52+j)), is at most half the
\* spacing of the doubles below q.
IntMulDiv(k, a, m) ==
    LET x == k * a
        q == x \div m
        j == ScaleExp(a, m, 0)
        r == DoubleMod(a % m, 52 + j, m)
        e == j + CeilLog2(q, 0) - 1
        d == 2 * k * r
        back == \/ d \div m < Pow2(e)
                \/ d \div m = Pow2(e) /\ d % m = 0
    IN  IF x % m # 0 \/ q = 0 THEN q
        ELSE IF r = 0 \/ 2 * r > m THEN q
        ELSE IF back THEN q
        ELSE q - 1

-----------------------------------------------------------------------------
(* Helper functions, src/main.py lines 31-59.                              *)

Max(a, b) == IF a >= b THEN a ELSE b
Min(a, b) == IF a <= b THEN a ELSE b

\* Python's slice a[start:stop] on an axis of length n: a negative bound
\* counts from the end, both bounds are clamped into 0..n.
SliceBound(i, n) == IF i < 0 THEN Max(i + n, 0) ELSE Min(i, n)
SliceLo(start, stop, n) == SliceBound(start, n)
SliceLen(start, stop, n) == Max(SliceBound(stop, n) - SliceBound(start, n), 0)

\* cv2.imread: the decoded grid, or Null for a path that does not resolve
\* to a decodable image
imread(p) == IF p \in DOMAIN files THEN files[p] ELSE Null

Grid(f) == [h |-> f.h, w |-> f.w, r0 |-> 0, c0 |-> 0, resampled |-> FALSE, px |-> f.px]

\* a loader that hands on whatever the decoder returned
load_image_unchecked(p) ==
    LET i == imread(p)
    IN  [err |-> "none", val |-> IF i = Null THEN NoGrid ELSE Grid(i)]

\* load_image: [err, val]
load_image(p) ==
    LET i == imread(p)
    IN  IF i = Null THEN [err |-> "FileNotFoundError", val |-> NoGrid]
        ELSE [err |-> "none", val |-> Grid(i)]

\* half-sizes of the crop: int(h * frac / 2); halving a double is exact
HalfSize(n, fr) == IntMulDiv(n, fr[1], fr[2]) \div 2

\* a crop that takes int(h * frac) for the half-size
center_crop_whole(g, fr) ==
    LET ch == IntMulDiv(g.h, fr[1], fr[2])
        cw == IntMulDiv(g.w, fr[1], fr[2])
        cy == g.h \div 2
        cx == g.w \div 2
    IN  [h |-> SliceLen(cy - ch, cy + ch, g.h),
         w |-> SliceLen(cx - cw, cx + cw, g.w),
         r0 |-> g.r0 + SliceLo(cy - ch, cy + ch, g.h),
         c0 |-> g.c0 + SliceLo(cx - cw, cx + cw, g.w),
         resampled |-> g.resampled,
         px |-> g.px]

center_crop(g, fr) ==
    LET ch == HalfSize(g.h, fr)
        cw == HalfSize(g.w, fr)
        cy == g.h \div 2
        cx == g.w \div 2
    IN  [h |-> SliceLen(cy - ch, cy + ch, g.h),
         w |-> SliceLen(cx - cw, cx + cw, g.w),
         r0 |-> g.r0 + SliceLo(cy - ch, cy + ch, g.h),
         c0 |-> g.c0 + SliceLo(cx - cw, cx + cw, g.w),
         resampled |-> g.resampled,
         px |-> g.px]

\* cv2.resize(img, (dw, dh), INTER_AREA): fails on an empty source and on a
\* target size with a zero side (no scale factors are given)
resize(g, dw, dh) ==
    IF g.h = 0 \/ g.w = 0 \/ dw <= 0 \/ dh <= 0
    THEN [err |-> "cv2.error", val |-> NoGrid]
    ELSE [err |-> "none",
          val |-> [h |-> dh, w |-> dw, r0 |-> g.r0, c0 |-> g.c0,
                   resampled |-> TRUE, px |-> g.px]]

\* a size test that also resizes a grid whose longest side equals max_side
NeedsResize_ge(g, ms) == Max(g.h, g.w) >= ms

NeedsResize(g, ms) == Max(g.h, g.w) > ms

\* a target size with the two sides in array order (rows, columns)
TargetSize_rows_first(g, ms) ==
    LET m == Max(g.h, g.w)
    IN  <<IntMulDiv(g.h, ms, m), IntMulDiv(g.w, ms, m)>>

\* the target size (width, height) preprocess passes to cv2.resize
TargetSize(g, ms) ==
    LET m == Max(g.h, g.w)
    IN  <<IntMulDiv(g.w, ms, m), IntMulDiv(g.h, ms, m)>>

preprocess(g, ms) ==
    IF NeedsResize(g, ms)
    THEN resize(g, TargetSize(g, ms)[1], TargetSize(g, ms)[2])
    ELSE [err |-> "none", val |-> g]

-----------------------------------------------------------------------------
(* Core classification logic, src/main.py lines 63-84.  A pixel is the     *)
(* tuple <<hue, saturation, value>>: hsv[..., 1] is p[2], hsv[..., 2] is   *)
(* p[3].  Over an empty grid numpy's mean and median are nan, and every    *)
(* comparison with nan is false.  The means are quotients of integers      *)
(* below 2^53 rounded once, so each comparison with a threshold is the     *)
(* comparison of the exact fractions: sum >= 190 * n, 10 * dark >= 3 * n.  *)

BagOf(p, n) == IF n <= 0 THEN EmptyBag ELSE [x \in {p} |-> n]

RECURSIVE WeightedSum(_, _, _)
WeightedSum(B, S, ch) ==
    IF S = {} THEN 0
    ELSE LET p == CHOOSE x \in S : TRUE
         IN  CopiesIn(p, B) * p[ch] + WeightedSum(B, S \ {p}, ch)

\* the sum of channel ch over the pixels of the grid
ChannelSum(B, ch) == WeightedSum(B, BagToSet(B), ch)

RECURSIVE CountIn(_, _)
CountIn(B, S) ==
    IF S = {} THEN 0
    ELSE LET p == CHOOSE x \in S : TRUE
         IN  CopiesIn(p, B) + CountIn(B, S \ {p})

\* the number of pixels whose V is strictly below t
CountBelow(B, t) == CountIn(B, {p \in BagToSet(B) : p[3] < t})

\* the i-th smallest V of the grid, i counted from 0
Kth(B, i) ==
    CHOOSE v \in {p[3] : p \in BagToSet(B)} :
        CountBelow(B, v) <= i /\ i < CountBelow(B, v + 1)

\* twice np.median(v): the middle element twice for an odd number of pixels,
\* the sum of the two middle elements for an even number
Median2(B) ==
    LET n == BagCardinality(B)
    IN  Kth(B, (n - 1) \div 2) + Kth(B, n \div 2)

\* a dark-pixel count that takes a pixel at the threshold for dark
DarkCount_le(B) == CountIn(B, {p \in BagToSet(B) : p[3] <= DARK_PIXEL_THRESH})

\* (v < DARK_PIXEL_THRESH).sum(): the number of very dark pixels
DarkCount(B) == CountBelow(B, DARK_PIXEL_THRESH)

\* dark_pct >= BLACK_PCT_THRESHOLD, with dark_pct = (v < DARK_PIXEL_THRESH).mean()
dark_pct_ge(B) ==
    /\ BagCardinality(B) > 0
    /\ BLACK_PCT_THRESHOLD[2] * DarkCount(B)
         >= BLACK_PCT_THRESHOLD[1] * BagCardinality(B)

\* v_median < 40
v_median_lt(B) == BagCardinality(B) > 0 /\ Median2(B) < 2 * MEDIAN_BLACK

\* v_mean >= TRANSP_V_MEAN
v_mean_ge(B) ==
    BagCardinality(B) > 0 /\ ChannelSum(B, 3) >= TRANSP_V_MEAN * BagCardinality(B)

\* s_mean <= TRANSP_S_MEAN
s_mean_le(B) ==
    BagCardinality(B) > 0 /\ ChannelSum(B, 2) <= TRANSP_S_MEAN * BagCardinality(B)

\* a transparent rule that is satisfied by either condition alone
transparent_rule_or(B) == v_mean_ge(B) \/ s_mean_le(B)

transparent_rule(B) == v_mean_ge(B) /\ s_mean_le(B)

black_rule(B) == dark_pct_ge(B) \/ v_median_lt(B)

classify(B) ==
    IF black_rule(B) THEN "black"
    ELSE IF transparent_rule(B) THEN "transparent"
    ELSE "colorful"

-----------------------------------------------------------------------------
(* The image-processing library.  What a file decodes to is fixed by the   *)
(* file: its shape and one of the pixel contents below.  A content is two  *)
(* HSV tones a and b and the tenths k of the pixels that carry tone a;     *)
(* cv2.cvtColor of a grid of n pixels yields floor(n*k/10) pixels of tone  *)
(* a and the rest of tone b.  It fails on an empty grid.                   *)

Contents ==
    << [a |-> <<0, 0, 0>>,     b |-> <<0, 0, 0>>,      k |-> 10],
       [a |-> <<0, 20, 200>>,  b |-> <<0, 20, 200>>,   k |-> 10],
       [a |-> <<0, 100, 120>>, b |-> <<0, 100, 120>>,  k |-> 10],
       [a |-> <<0, 20, 59>>,   b |-> <<0, 20, 255>>,   k |-> 3],
       [a |-> <<0, 100, 40>>,  b |-> <<0, 100, 40>>,   k |-> 10] >>

cvtColor(g) ==
    IF g.h <= 0 \/ g.w <= 0
    THEN [err |-> "cv2.error", val |-> EmptyBag]
    ELSE LET n == g.h * g.w
             c == Contents[g.px]
             na == (n * c.k) \div 10
         IN  [err |-> "none", val |-> BagOf(c.a, na) (+) BagOf(c.b, n - na)]

-----------------------------------------------------------------------------
(* Pipeline steps of detect, src/main.py lines 87-98.                      *)

Frame == UNCHANGED <<files, BELT, argv, path, debug, frac, max_side, seen, ncalls>>

CenterCrop ==
    /\ pc = "crop"
    /\ img' = center_crop(img, frac)
    /\ given' = img
    /\ trace' = Append(trace, "center_crop")
    /\ pc' = "preprocess"
    /\ UNCHANGED <<hsv, label, result, err, out, status>>
    /\ Frame

Preprocess ==
    /\ pc = "preprocess"
    /\ LET o == preprocess(img, max_side)
           t == IF NeedsResize(img, max_side)
                THEN trace \o <<"preprocess", "cv2.resize">>
                ELSE Append(trace, "preprocess")
       IN  /\ trace' = t
           /\ given' = img
           /\ IF o.err = "none"
              THEN /\ img' = o.val
                   /\ pc' = "cvt"
                   /\ err' = err
              ELSE /\ img' = img
                   /\ pc' = "raised"
                   /\ err' = o.err
    /\ UNCHANGED <<hsv, label, result, out, status>>
    /\ Frame



LoadImage ==
    /\ pc = "load"
    /\ LET o == load_image(path)
       IN  /\ trace' = Append(trace, "load_image")
           /\ IF o.err = "none"
              THEN /\ img' = o.val
                   /\ pc' = "crop"
                   /\ err' = err
              ELSE /\ img' = img
                   /\ pc' = "raised"
                   /\ err' = o.err
    /\ UNCHANGED <<given, hsv, label, result, out, status>>
    /\ Frame

CvtColor ==
    /\ pc = "cvt"
    /\ LET o == cvtColor(img)
       IN  /\ trace' = Append(trace, "cv2.cvtColor")
           /\ given' = img
           /\ IF o.err = "none"
              THEN /\ hsv' = o.val
                   /\ pc' = "classify"
                   /\ err' = err
              ELSE /\ hsv' = hsv
                   /\ pc' = "raised"
                   /\ err' = o.err
    /\ UNCHANGED <<img, label, result, out, status>>
    /\ Frame

\* classify(hsv, debug=debug): the debug line is printed, the label returned
Classify ==
    /\ pc = "classify"
    /\ label' = classify(hsv)
    /\ out' = IF debug THEN Append(out, <<"[DEBUG]">>) ELSE out
    /\ trace' = Append(trace, "classify")
    /\ pc' = "belt"
    /\ UNCHANGED <<img, given, hsv, result, err, status>>
    /\ Frame

\* a lookup that removes the entry it reads (BELT.pop(label))
BeltLookup_pop ==
    /\ pc = "belt"
    /\ trace' = Append(trace, "BELT")
    /\ IF label \in DOMAIN BELT
       THEN /\ result' = <<label, BELT[label]>>
            /\ pc' = "returned"
            /\ err' = err
       ELSE /\ result' = result
            /\ pc' = "raised"
            /\ err' = "KeyError"
    /\ BELT' = [l \in DOMAIN BELT \ {label} |-> BELT[l]]
    /\ UNCHANGED <<img, given, hsv, label, out, status>>
    /\ UNCHANGED <<files, argv, path, debug, frac, max_side, seen, ncalls>>

\* return label, BELT[label]
BeltLookup ==
    /\ pc = "belt"
    /\ trace' = Append(trace, "BELT")
    /\ IF label \in DOMAIN BELT
       THEN /\ result' = <<label, BELT[label]>>
            /\ pc' = "returned"
            /\ err' = err
       ELSE /\ result' = result
            /\ pc' = "raised"
            /\ err' = "KeyError"
    /\ UNCHANGED <<img, given, hsv, label, out, status>>
    /\ Frame

-----------------------------------------------------------------------------
(* Callers of detect.                                                      *)

MaxCalls == 3

Paths == {"a.png", "b.png"}
Missing == "missing.png"

\* what a finished call handed to its caller: the pair, or the exception
Outcome == IF err = "none" THEN result ELSE <<"raise", err>>

\* a caller invokes detect(p, debug=d); the locals of the new call are fresh
CallDetect ==
    /\ pc = "idle"
    /\ ncalls < MaxCalls
    /\ \E p \in Paths, d \in BOOLEAN :
         /\ path' = p
         /\ debug' = d
    /\ ncalls' = ncalls + 1
    /\ pc' = "load"
    /\ img' = NoGrid
    /\ given' = NoGrid
    /\ hsv' = EmptyBag
    /\ label' = "none"
    /\ result' = NoResult
    /\ err' = "none"
    /\ trace' = <<>>
    /\ UNCHANGED <<files, BELT, argv, frac, max_side, out, status, seen>>

\* detect hands its pair, or its exception, to the caller
Finish ==
    /\ pc \in {"returned", "raised"}
    /\ seen' = [seen EXCEPT ![path] = Outcome]
    /\ pc' = "idle"
    /\ UNCHANGED <<files, BELT, argv, path, debug, frac, max_side, img, given,
                   hsv, label, result, err, trace, out, status, ncalls>>

(* Command-line interface, src/main.py lines 102-111.                      *)

\* len(sys.argv) < 2: usage and exit; else img_path = sys.argv[1],
\* debug = "--debug" in sys.argv, and detect is called
Main ==
    /\ pc = "main"
    /\ IF Len(argv) < 1
       THEN /\ out' = Append(out, <<"Usage">>)
            /\ err' = "SystemExit"
            /\ status' = 1
            /\ pc' = "exited"
            /\ UNCHANGED <<path, debug>>
       ELSE /\ path' = argv[1]
            /\ debug' = (\E i \in 1..Len(argv) : argv[i] = "--debug")
            /\ pc' = "load"
            /\ UNCHANGED <<out, err, status>>
    /\ UNCHANGED <<files, BELT, argv, frac, max_side, img, given, hsv, label,
                   result, trace, seen, ncalls>>

\* print(f"Detected **{label}** object -> send to conveyor belt **{belt}**")
PrintResult ==
    /\ pc = "returned"
    /\ out' = Append(out, <<"Detected", result[1], result[2]>>)
    /\ status' = 0
    /\ pc' = "exited"
    /\ UNCHANGED <<files, BELT, argv, path, debug, frac, max_side, img, given,
                   hsv, label, result, err, trace, seen, ncalls>>

\* an exception nobody catches: traceback on stderr, exit status 1
Unhandled ==
    /\ pc = "raised"
    /\ out' = Append(out, <<"Traceback", err>>)
    /\ status' = 1
    /\ pc' = "exited"
    /\ UNCHANGED <<files, BELT, argv, path, debug, frac, max_side, img, given,
                   hsv, label, result, err, trace, seen, ncalls>>

-----------------------------------------------------------------------------
(* Initial states and specifications.                                      *)

\* shapes (height, width) of the decodable files
Shapes == {<<1, 1>>, <<6, 40>>, <<7, 7>>, <<34, 7>>, <<1710, 7>>, <<2147, 20>>,
           <<10000, 7>>, <<1714, 1714>>}

FileContents == {[h |-> s[1], w |-> s[2], px |-> c] :
                    s \in Shapes, c \in 1..Len(Contents)}

Locals ==
    /\ given = NoGrid
    /\ label = "none"
    /\ result = NoResult
    /\ err = "none"
    /\ trace = <<>>
    /\ out = <<>>
    /\ status = -1
    /\ BELT = BELT0

\* a process that calls detect up to MaxCalls times
Init ==
    /\ Locals
    /\ img = NoGrid
    /\ hsv = EmptyBag
    /\ files \in [Paths -> FileContents \cup {Null}]
    /\ argv = <<>>
    /\ path = "none"
    /\ debug = FALSE
    /\ frac = CROP_FRAC
    /\ max_side = MAX_SIDE
    /\ pc = "idle"
    /\ seen = [p \in Paths |-> NoResult]
    /\ ncalls = 0

Next ==
    \/ CallDetect
    \/ LoadImage
    \/ CenterCrop
    \/ Preprocess
    \/ CvtColor
    \/ Classify
    \/ BeltLookup
    \/ Finish

Spec == Init /\ [][Next]_vars

\* one run of the command line
MaxArgs == 2
ArgTokens == {"a.png", Missing, "--debug"}
Argvs == UNION {[1..n -> ArgTokens] : n \in 0..MaxArgs}

InitCLI ==
    /\ Locals
    /\ img = NoGrid
    /\ hsv = EmptyBag
    /\ files \in [{"a.png"} -> FileContents \cup {Null}]
    /\ argv \in Argvs
    /\ path = "none"
    /\ debug = FALSE
    /\ frac = CROP_FRAC
    /\ max_side = MAX_SIDE
    /\ pc = "main"
    /\ seen = [p \in {} |-> NoResult]
    /\ ncalls = 0

NextCLI ==
    \/ Main
    \/ LoadImage
    \/ CenterCrop
    \/ Preprocess
    \/ CvtColor
    \/ Classify
    \/ BeltLookup
    \/ PrintResult
    \/ Unhandled

SpecCLI == InitCLI /\ [][NextCLI]_vars

\* direct calls of center_crop and preprocess on arbitrary grids
MaxDim == 56
MaxSideArg == 16
Fracs == {<<3, 10>>, <<1, 10>>, <<7, 10>>, <<1, 2>>, <<6, 11>>, <<1, 49>>, <<1, 1>>}
GeomDims == (0..MaxDim) \cup {180, 511, 512, 513, 561, 644}

InitGeom ==
    /\ Locals
    /\ hsv = EmptyBag
    /\ files = [p \in {} |-> Null]
    /\ argv = <<>>
    /\ path = "none"
    /\ debug = FALSE
    /\ seen = [p \in {} |-> NoResult]
    /\ ncalls = 0
    /\ \E h \in GeomDims, w \in 0..MaxDim :
         img = [h |-> h, w |-> w, r0 |-> 0, c0 |-> 0, resampled |-> FALSE, px |-> 1]
    /\ \/ pc = "crop" /\ frac \in Fracs /\ max_side = MAX_SIDE
       \/ pc = "preprocess" /\ frac = CROP_FRAC
            /\ max_side \in (1..MaxSideArg) \cup {MAX_SIDE}

NextGeom == CenterCrop \/ Preprocess

SpecGeom == InitGeom /\ [][NextGeom]_vars

\* direct calls of classify on small HSV grids
MaxCount == 7
Palette == {<<0, 0, 0>>, <<0, 20, 39>>, <<0, 20, 40>>, <<0, 100, 41>>, <<0, 20, 59>>,
            <<0, 100, 60>>, <<0, 100, 120>>, <<0, 36, 189>>, <<0, 35, 190>>,
            <<0, 34, 191>>, <<0, 20, 200>>, <<0, 20, 255>>, <<0, 36, 255>>}

InitClassify ==
    /\ Locals
    /\ img = NoGrid
    /\ files = [p \in {} |-> Null]
    /\ argv = <<>>
    /\ path = "none"
    /\ frac = CROP_FRAC
    /\ max_side = MAX_SIDE
    /\ seen = [p \in {} |-> NoResult]
    /\ ncalls = 0
    /\ pc = "classify"
    /\ debug \in BOOLEAN
    /\ \E a \in Palette, b \in Palette, na \in 0..MaxCount, nb \in 0..MaxCount :
         hsv = BagOf(a, na) (+) BagOf(b, nb)

NextClassify == Classify

SpecClassify == InitClassify /\ [][NextClassify]_vars

-----------------------------------------------------------------------------
(* Properties.                                                             *)

LastStage == IF trace = <<>> THEN "none" ELSE trace[Len(trace)]
CropDone == LastStage = "center_crop"
PreDone == LastStage \in {"preprocess", "cv2.resize"}
ClassifyDone == LastStage = "classify"

\* floor(n * f / 2) in exact arithmetic
FloorHalf(n, fr) == (n * fr[1]) \div (2 * fr[2])

\* the crop is the window of half-sizes ch, cw around the centre of `given`
IsWindow(ch, cw) ==
    LET cy == given.h \div 2
        cx == given.w \div 2
    IN  /\ img.h = 2 * ch
        /\ img.w = 2 * cw
        /\ img.r0 = given.r0 + cy - ch
        /\ img.c0 = given.c0 + cx - cw
        /\ cy - ch >= 0
        /\ cx - cw >= 0
        /\ cy + ch <= given.h
        /\ cx + cw <= given.w
        /\ (ch = 0 \/ cw = 0) => img.h * img.w = 0
        /\ img.resampled = given.resampled
        /\ img.px = given.px

\* C7 as stated: for every fraction 0 < f <= 1 the centre crop is the window
\* with ch = floor(H*f/2) and cw = floor(W*f/2) in exact arithmetic: 2*ch rows,
\* 2*cw columns, every index inside the source, empty when ch or cw is 0.
C7_ExactFloor ==
    CropDone => IsWindow(FloorHalf(given.h, frac), FloorHalf(given.w, frac))

\* the half-sizes Python's int(n * f / 2) can take: floor(n*f/2) for the
\* default fraction and whenever n*f is no integer, else that or one less
HalfSizes(n, fr) ==
    IF fr = CROP_FRAC \/ (n * fr[1]) % fr[2] # 0
    THEN {FloorHalf(n, fr)}
    ELSE {FloorHalf(n, fr), FloorHalf(n, fr) - 1} \cap Nat

\* C7 amended: the centre crop is the window [cy-ch, cy+ch) x [cx-cw, cx+cw)
\* with ch = int(H*f/2), cw = int(W*f/2) as evaluated in double precision:
\* floor(H*f/2) for the default f = 0.30 and whenever H*f is no integer,
\* otherwise floor(H*f/2) or one less.  It has 2*ch rows and 2*cw columns,
\* every index lies inside the source, and it is empty when ch or cw is 0.
C7_CenterCrop ==
    CropDone =>
        \E ch \in HalfSizes(given.h, frac), cw \in HalfSizes(given.w, frac) :
            IsWindow(ch, cw)

\* C7 witness: the default fraction on a 20 x 6 grid leaves 6 rows and no column
C7_Witness ==
    /\ CropDone
    /\ frac = CROP_FRAC
    /\ given.h = 20 /\ given.w = 6
    /\ img.h = 6 /\ img.w = 0

\* C8: when max(H, W) <= max_side, the boundary max(H, W) = max_side
\* included, preprocess returns the grid it received, same shape and same
\* pixel values, and cv2.resize is not called.
C8_NoResize ==
    (PreDone /\ Max(given.h, given.w) <= max_side) =>
        /\ img = given
        /\ err = "none"
        /\ pc = "cvt"
        /\ \A i \in 1..Len(trace) : trace[i] # "cv2.resize"

\* C8 witness: a non-empty grid whose longest side equals max_side passed through
C8_Witness ==
    /\ PreDone
    /\ given.h > 0 /\ given.w > 0
    /\ Max(given.h, given.w) = max_side
    /\ img = given

ScaledSides(n, ms, m) ==
    IF (n * ms) % m # 0 THEN {(n * ms) \div m}
    ELSE {(n * ms) \div m, (n * ms) \div m - 1} \cap Nat

RECURSIVE PixelSeq(_)
PixelSeq(B) ==
    IF BagToSet(B) = {} THEN <<>>
    ELSE LET p == CHOOSE x \in BagToSet(B) : \A y \in BagToSet(B) : x[3] <= y[3]
         IN  <<p>> \o PixelSeq(B (-) SetToBag({p}))

RECURSIVE SeqSum(_, _)
SeqSum(sq, ch) == IF sq = <<>> THEN 0 ELSE sq[1][ch] + SeqSum(Tail(sq), ch)

\* rule 1 read off the pixels: at least 30 % of them have V < 60, or the
\* median of V (the mean of the two middle values of an even number) is < 40
Rule1(sq) ==
    LET n == Len(sq)
        dark == Cardinality({i \in 1..n : sq[i][3] < 60})
        med2 == IF n % 2 = 1 THEN 2 * sq[(n + 1) \div 2][3]
                ELSE sq[n \div 2][3] + sq[n \div 2 + 1][3]
    IN  n > 0 /\ (10 * dark >= 3 * n \/ med2 < 80)

\* rule 2 read off the pixels: mean V >= 190 and mean S <= 35
Rule2(sq) ==
    Len(sq) > 0 /\ SeqSum(sq, 3) >= 190 * Len(sq) /\ SeqSum(sq, 2) <= 35 * Len(sq)

\* C1: classify returns black if and only if dark_pct >= 0.30 or
\* v_median < 40, dark_pct being the fraction of pixels with V strictly
\* below 60; rule 1 pre-empts rule 2, and a grid with v_median exactly 40 and
\* dark_pct < 0.30 is not black.
C1_BlackRule ==
    ClassifyDone => (label = "black" <=> Rule1(PixelSeq(hsv)))

\* C1 witness: a grid labelled black although rule 2 holds for it too
C1_Witness ==
    /\ ClassifyDone
    /\ label = "black"
    /\ Rule2(PixelSeq(hsv))

\* C2: when rule 1 does not trigger, classify returns transparent if and
\* only if v_mean >= 190 and s_mean <= 35, both bounds inclusive and both
\* required, and colorful in every other case.
C2_TransparentRule ==
    (ClassifyDone /\ ~Rule1(PixelSeq(hsv))) =>
        /\ label = "transparent" <=> Rule2(PixelSeq(hsv))
        /\ label = "colorful" <=> ~Rule2(PixelSeq(hsv))

\* C2 witness: a grid exactly on both bounds is labelled transparent
C2_Witness ==
    /\ ClassifyDone
    /\ label = "transparent"
    /\ BagCardinality(hsv) > 1
    /\ SeqSum(PixelSeq(hsv), 3) = 190 * BagCardinality(hsv)
    /\ SeqSum(PixelSeq(hsv), 2) = 35 * BagCardinality(hsv)

Running == pc \notin {"idle", "main", "load", "exited"}
Finished == pc \in {"returned", "raised"}

\* C3 as stated: every call of detect on a path that loads ends by returning
\* a pair (label, destination) with the label one of the three and the
\* destination the fixed mapping of that label, the mapping left as it was.
C3_ReturnsMappedPair ==
    (Finished /\ imread(path) # Null) =>
        /\ pc = "returned"
        /\ result[1] \in Labels
        /\ result[2] = BELT0[result[1]]
        /\ BELT = BELT0

\* C4: when the path does not resolve to a decodable image, detect fails
\* with the loader's FileNotFoundError, unchanged, no later stage is executed
\* and no (label, destination) pair is produced.
C4_LoadFailure ==
    /\ (Running /\ imread(path) = Null) =>
          /\ pc = "raised"
          /\ err = "FileNotFoundError"
          /\ trace = <<"load_image">>
          /\ img = NoGrid /\ hsv = EmptyBag
          /\ label = "none" /\ result = NoResult
    /\ err = "FileNotFoundError" => imread(path) = Null
    /\ \A p \in DOMAIN seen :
          (imread(p) = Null /\ seen[p] # NoResult) =>
              seen[p] = <<"raise", "FileNotFoundError">>

\* C4 witness: an existing file the decoder returns nothing for
C4_Witness ==
    /\ pc = "raised"
    /\ err = "FileNotFoundError"
    /\ path \in DOMAIN files

\* C5 as stated: load failure is the only error detect can raise; every
\* stage after the loader completes on what the stage before it produced.
C5_OnlyLoadFails == pc = "raised" => err = "FileNotFoundError"

\* C6: two calls of detect on the same unchanged file end alike, whatever
\* calls are made in between, and no call changes the thresholds, the
\* parameters or the belt mapping that a later call reads.
C6_Deterministic ==
    /\ (Finished /\ seen[path] # NoResult) => Outcome = seen[path]
    /\ BELT = BELT0
    /\ frac = CROP_FRAC
    /\ max_side = MAX_SIDE

\* C6 witness: a.png, then b.png, then a.png again with the first result
C6_Witness ==
    /\ pc = "returned"
    /\ ncalls = 3
    /\ path = "a.png"
    /\ seen["a.png"] = result
    /\ seen["b.png"] # NoResult

IsResultLine(l) == l[1] = "Detected"
ResultLines == {i \in 1..Len(out) : IsResultLine(out[i])}
\* no argument of the command line names a path
NoPathArgument == \A i \in 1..Len(argv) : argv[i] = "--debug"

\* C9 as stated: the run exits with status 0 exactly when classification
\* succeeded, after one result line naming the label and its belt; without
\* a path argument it prints the usage message and exits non-zero without
\* calling detect; on load failure it exits non-zero with no result line.
C9_ExitBehaviour ==
    pc = "exited" =>
        /\ status = 0 <=> (result # NoResult /\ err = "none")
        /\ status = 0 =>
              /\ Cardinality(ResultLines) = 1
              /\ out[Len(out)] = <<"Detected", label, BELT0[label]>>
        /\ NoPathArgument =>
              /\ status # 0
              /\ out = << <<"Usage">> >>
              /\ trace = <<>>
        /\ err = "FileNotFoundError" => (status # 0 /\ ResultLines = {})

====
